---- MODULE Spec2Model ----
(***************************************************************************)
(* folder-diff-restore: createDiff builds a diff folder D from two trees   *)
(* A and B, restoreDiff replays D onto a target tree.                      *)
(*                                                                         *)
(* The file system is one map from absolute paths (sequences of segments)  *)
(* to entries.  A path that is not in the map does not exist.  Every       *)
(* fs-extra / fs call the two functions make is an operator on that map    *)
(* which returns the new map and an error flag.                            *)
(*                                                                         *)
(* Three specifications share the actions:                                 *)
(*   Spec        createDiff on trees A and B, then restoreDiff onto A      *)
(*   SpecBuild   createDiff and compareDirectories with something already  *)
(*               at the diff folder's path, any options argument and a     *)
(*               comparator that may fail or hand out an invalid result    *)
(*   SpecReplay  restoreDiff of any diff folder onto any target tree       *)
(***************************************************************************)
EXTENDS Integers, Sequences, FiniteSets, TLC

(* ------------------------------ bounds -------------------------------- *)

\* file contents are the byte strings 1..MaxData
MaxData == 2
\* number of symbolic links one path resolution may traverse (ELOOP beyond)
MaxHops == 2
\* number of restoreDiff calls in one behaviour
MaxRestores == 2

(* ----------------------------- constants ------------------------------ *)

MetadataName == "__folder-diff-metadata.json"
Sep == "/"

folderA == <<"A">>
folderB == <<"B">>
diffFolder == <<"D">>

(* ------------------------------ entries ------------------------------- *)

\* bytes of a file: either opaque bytes n (not JSON), or the JSON text of
\* an object.  shape tells what the member "removed" of that object is:
\*   "list"     an array, its items in removed
\*   "missing"  the object has no such member
\*   "falsy"    null, false, 0 or ""
\*   "number"   a number other than 0
\*   "string"   a non-empty string, its characters in removed
Raw(n) == [json |-> FALSE, n |-> n, removed |-> <<>>, shape |-> "bytes"]
JsonText(rem) == [json |-> TRUE, n |-> 0, removed |-> rem, shape |-> "list"]
JsonShape(shape, rem) == [json |-> TRUE, n |-> 0, removed |-> rem, shape |-> shape]
NoData == Raw(0)

\* an item of a JSON array that is a number, not a string
JsonNumber == <<"#">>

File(d) == [kind |-> "file", data |-> d, target |-> <<>>]
Dir == [kind |-> "dir", data |-> NoData, target |-> <<>>]
Link(t) == [kind |-> "link", data |-> NoData, target |-> t]

(* --------------------------- path helpers ----------------------------- *)

\* path.dirname
Dirname(p) == IF p = <<>> THEN <<>> ELSE SubSeq(p, 1, Len(p) - 1)
\* path.basename
Basename(p) == p[Len(p)]

IsPrefix(p, q) == Len(p) <= Len(q) /\ SubSeq(q, 1, Len(p)) = p

\* the segments of a path string, separators dropped
RECURSIVE Segments(_)
Segments(s) ==
  IF s = <<>> THEN <<>>
  ELSE IF Head(s) = Sep THEN Segments(Tail(s))
  ELSE <<Head(s)>> \o Segments(Tail(s))

\* path.join(base, rel): normalises away the separators of rel
Join(base, rel) == base \o Segments(rel)

\* path.relative(from, to) for to beneath from
Relative(from, to) == SubSeq(to, Len(from) + 1, Len(to))

(* -------------------------- path resolution --------------------------- *)

Fail == <<"!">>

\* where a symlink with target string t, living in directory dir, points
LinkDest(dir, t) == IF t # <<>> /\ Head(t) = Sep THEN Segments(t) ELSE dir \o t

\* The kernel's path walk.  cur is a directory already resolved, rest the
\* segments still to go.  Symlinks in the middle are always followed, the
\* last segment only when followLast.  The result is the real path (which
\* may not exist when only its last segment is missing) or Fail.
RECURSIVE Walk(_, _, _, _, _)
Walk(f, cur, rest, followLast, hops) ==
  IF rest = <<>> THEN cur
  ELSE LET q == Append(cur, Head(rest))
           last == Len(rest) = 1
       IN IF q \notin DOMAIN f
          THEN (IF last THEN q ELSE Fail)
          ELSE IF f[q].kind = "link" /\ (~last \/ followLast)
          THEN (IF hops = 0 THEN Fail
                ELSE Walk(f, <<>>, LinkDest(cur, f[q].target) \o Tail(rest),
                          followLast, hops - 1))
          ELSE IF last THEN q
          ELSE IF f[q].kind = "dir" THEN Walk(f, q, Tail(rest), followLast, hops)
          ELSE Fail

RealPath(f, p) == Walk(f, <<>>, p, TRUE, MaxHops)
LinkPath(f, p) == Walk(f, <<>>, p, FALSE, MaxHops)

\* fs.stat / fs.lstat, reduced to the kind ("none" when the call fails)
StatKind(f, p) ==
  LET r == RealPath(f, p) IN IF r \in DOMAIN f THEN f[r].kind ELSE "none"
LstatKind(f, p) ==
  LET r == LinkPath(f, p) IN IF r \in DOMAIN f THEN f[r].kind ELSE "none"

(* --------------------------- fs primitives ---------------------------- *)

Ok(f) == [f |-> f, err |-> FALSE]
Err(f) == [f |-> f, err |-> TRUE]

Put(f, p, e) == [q \in DOMAIN f \cup {p} |-> IF q = p THEN e ELSE f[q]]
Drop(f, S) == [q \in DOMAIN f \ S |-> f[q]]

\* fs.pathExists: fs.access, which follows symbolic links
PathExists(f, p) == StatKind(f, p) # "none"

\* (mutant) rm -rf of what the path resolves to: the pointee of a link
RemoveThroughLink(f, p) ==
  LET r == RealPath(f, p)
  IN IF r \in DOMAIN f
     THEN Ok(Drop(f, {q \in DOMAIN f : IsPrefix(r, q)}))
     ELSE Ok(f)

\* fs.remove: rm -rf of the entry itself (a link is removed, not its pointee)
Remove(f, p) ==
  LET r == LinkPath(f, p)
  IN IF r \in DOMAIN f
     THEN Ok(Drop(f, {q \in DOMAIN f : IsPrefix(r, q)}))
     ELSE Ok(f)

\* fs.ensureDir: mkdir -p
RECURSIVE EnsureDir(_, _)
EnsureDir(f, p) ==
  IF p = <<>> \/ StatKind(f, p) = "dir" THEN Ok(f)
  ELSE IF LstatKind(f, p) # "none" THEN Err(f)
  ELSE LET up == EnsureDir(f, Dirname(p))
       IN IF up.err THEN up
          ELSE LET r == LinkPath(up.f, p)
               IN IF r = Fail THEN Err(up.f) ELSE Ok(Put(up.f, r, Dir))

\* fs.readlink
ReadLink(f, p) == f[LinkPath(f, p)].target

\* fs.symlink(target, p): fails when anything, a dangling link included,
\* is at p, or when the parent directory is missing (Walk then fails)
Symlink(f, t, p) ==
  LET r == LinkPath(f, p)
  IN IF r = Fail \/ r \in DOMAIN f
     THEN Err(f)
     ELSE Ok(Put(f, r, Link(t)))

\* write of a regular file through open(O_CREAT|O_TRUNC): follows a link at
\* p, creates the pointee of a dangling one, refuses a directory
WriteFile(f, p, d) ==
  LET r == RealPath(f, p)
  IN IF r = Fail THEN Err(f)
     ELSE IF r \in DOMAIN f /\ f[r].kind # "file" THEN Err(f)
     ELSE Ok(Put(f, r, File(d)))

\* fs.copyFile(src, dest)
CopyFile(f, src, dest) ==
  IF StatKind(f, src) # "file" THEN Err(f)
  ELSE WriteFile(f, dest, f[RealPath(f, src)].data)


\* every segment name a tree can hold, in the order readdir lists them
NameOrder == <<"a", "d", "l", "N", "n", MetadataName>>
Names == {NameOrder[i] : i \in 1..Len(NameOrder)}

\* fs.readdir of a directory
ReadDir(f, p) ==
  LET r == RealPath(f, p)
      Present(n) == Append(r, n) \in DOMAIN f
  IN SelectSeq(NameOrder, Present)

\* fs-extra copy(src, dest, {dereference: false}), overwrite defaulting to
\* true.  CopyEntry is the per-entry part (checkPaths, then onDir / onFile /
\* onLink), CopyItems the loop of copyDir over the items of a directory.
RECURSIVE CopyEntry(_, _, _), CopyItems(_, _, _, _)
CopyEntry(f, src, dest) ==
  LET sk == LstatKind(f, src)
      dk == LstatKind(f, dest)
      s == LinkPath(f, src)
      d == LinkPath(f, dest)
  IN IF sk = "none" \/ d = Fail THEN Err(f)
     ELSE IF dk # "none" /\ ((sk = "dir") # (dk = "dir")) THEN Err(f)
     ELSE IF sk = "dir"
     THEN CopyItems(IF dk = "none" THEN Put(f, d, Dir) ELSE f,
                    src, dest, ReadDir(f, src))
     ELSE IF sk = "file"
     THEN Ok(Put(f, d, File(f[s].data)))
     ELSE \* onLink
          IF dk = "none" THEN Ok(Put(f, d, Link(f[s].target)))
          ELSE IF dk # "link" THEN Err(f)
          ELSE IF IsPrefix(f[s].target, f[d].target) THEN Err(f)
          ELSE Ok(Put(f, d, Link(f[s].target)))
CopyItems(f, src, dest, items) ==
  IF items = <<>> THEN Ok(f)
  ELSE LET one == CopyEntry(f, Append(src, Head(items)), Append(dest, Head(items)))
       IN IF one.err THEN one
          ELSE CopyItems(one.f, src, dest, Tail(items))

Copy(f, src, dest) ==
  IF LstatKind(f, src) = "none" THEN Err(f)
  ELSE LET par == EnsureDir(f, Dirname(dest))
       IN IF par.err THEN par ELSE CopyEntry(par.f, src, dest)

(* ------------------------------- JSON --------------------------------- *)

\* fs.writeJson(p, {removed: rem})
WriteJson(f, p, rem) == WriteFile(f, p, JsonText(rem))

\* (mutant) `metadata.removed` without `|| []`: a manifest without the
\* member gives undefined, which the loop cannot iterate
ReadJsonWithoutDefault(f, p) ==
  LET r == RealPath(f, p)
  IN IF r \notin DOMAIN f \/ f[r].kind # "file" \/ ~f[r].data.json
     THEN [ok |-> FALSE, removed |-> <<>>, iterable |-> FALSE]
     ELSE [ok |-> TRUE,
           removed |-> IF f[r].data.shape \in {"list", "string"}
                       THEN f[r].data.removed ELSE <<>>,
           iterable |-> f[r].data.shape \in {"list", "string"}]

\* fs.readJson(p) followed by `metadata.removed || []`: ok is false when the
\* file cannot be read or its bytes are not JSON; removed is what the loop
\* `for (const itemPath of removedItems)` will iterate, and iterable is false
\* when that value cannot be iterated (a number)
ReadJson(f, p) ==
  LET r == RealPath(f, p)
  IN IF r \notin DOMAIN f \/ f[r].kind # "file" \/ ~f[r].data.json
     THEN [ok |-> FALSE, removed |-> <<>>, iterable |-> FALSE]
     ELSE [ok |-> TRUE,
           removed |-> IF f[r].data.shape \in {"list", "string"}
                       THEN f[r].data.removed ELSE <<>>,
           iterable |-> f[r].data.shape # "number"]

(* ------------------------------ options ------------------------------ *)

\* The options bag {compareSize?, compareContent?, compareSymlink?}: each
\* member is "true", "false" or "unset" (the object has no such member).
\* The bag is handed to the comparator as it is, so a member the comparator
\* knows and DiffOptions does not name travels with it: ignoreCase.
Bag(size, content, symlink) ==
  [compareSize |-> size, compareContent |-> content, compareSymlink |-> symlink,
   ignoreCase |-> "unset"]

\* the bag with ignoreCase: true added
IgnoringCase(bag) == [bag EXCEPT !.ignoreCase = "true"]

\* an options argument: left out of the call, or the bag the caller passed
Omitted == [given |-> FALSE, bag |-> Bag("unset", "unset", "unset")]
Given(bag) == [given |-> TRUE, bag |-> bag]

\* a default parameter value: used only when the argument is left out
DefaultTo(arg, default) == IF arg.given THEN arg.bag ELSE default

\* `options: DiffOptions = {...}` of createDiff
DiffOptionsDefault == Bag("true", "true", "true")

\* `options: Options = {...}` of compareDirectories
CompareOptionsDefault == Bag("true", "true", "unset")

(* ---------------------------- comparator ------------------------------ *)

\* The external comparator (dir-compare) at its interface: one classified
\* entry per relative path present in A or in B, a directory before its
\* children, names in directory order.  state is "left" (only in A),
\* "right" (only in B), "equal" or "distinct"; name1 / name2 are the A-side
\* and B-side names ("" when that side is missing); relativePath is the
\* path of the containing directory, "/" at the root; type2 is the type of
\* the B side.  Two directories have no bytes of their own to compare: the
\* comparator reports the pair as "distinct" when dirDistinct (dir-compare
\* does so when exactly one side is reached through a link), else "equal".
\* The options decide "distinct" against "equal" for an entry on both sides:
\* sizes, bytes and link targets are compared only under an option that is
\* true.  Under ignoreCase the comparator pairs two names that differ only
\* in case, and name1 and name2 are then the two spellings.
Type(f, p) ==
  LET k == StatKind(f, p)
  IN IF k = "dir" THEN "directory" ELSE IF k = "file" THEN "file" ELSE "missing"

\* the size of a file in bytes: every opaque content is one byte long
Size(d) == IF d.json THEN 2 + Len(d.removed) ELSE 1

SameEntry(ea, eb, dirDistinct, opts) ==
  /\ ea.kind = eb.kind
  /\ ea.kind = "file" =>
       /\ opts.compareSize = "true" => Size(ea.data) = Size(eb.data)
       /\ opts.compareContent = "true" => ea.data = eb.data
  /\ ea.kind = "link" => (opts.compareSymlink = "true" => ea.target = eb.target)
  /\ ea.kind = "dir" => ~dirDistinct

\* a name without its case: the trees spell one name in two ways, n and N
Fold(n) == IF n = "N" THEN "n" ELSE n

\* the name under which directory dir holds the name n, "" when it does
\* not: n itself, or under ignoreCase the spelling of n that is there
NameIn(f, dir, n, opts) ==
  LET Same(m) == /\ IF opts.ignoreCase = "true" THEN Fold(m) = Fold(n) ELSE m = n
                 /\ Append(dir, m) \in DOMAIN f
      found == SelectSeq(NameOrder, Same)
  IN IF found = <<>> THEN "" ELSE Head(found)

\* The entries of one directory pair and of what lies below.  Under
\* ignoreCase the two spellings of a name make one entry, listed at the
\* folded spelling.  The trees spell a directory alike on both sides.
RECURSIVE CompareDir(_, _, _, _, _)
CompareDir(f, rel, names, dirDistinct, opts) ==
  IF names = <<>> THEN <<>>
  ELSE LET n == Head(names)
           name1 == NameIn(f, folderA \o rel, n, opts)
           name2 == NameIn(f, folderB \o rel, n, opts)
           pa == folderA \o rel \o <<name1>>
           pb == folderB \o rel \o <<name2>>
           inA == name1 # ""
           inB == name2 # ""
           listed == (inA \/ inB) /\ ~(opts.ignoreCase = "true" /\ Fold(n) # n)
           entry == [state |-> IF ~inB THEN "left"
                               ELSE IF ~inA THEN "right"
                               ELSE IF SameEntry(f[pa], f[pb], dirDistinct, opts)
                                    THEN "equal" ELSE "distinct",
                     name1 |-> name1,
                     name2 |-> name2,
                     relativePath |-> <<Sep>> \o rel,
                     type2 |-> IF inB THEN Type(f, pb) ELSE "missing"]
           below == IF (inA /\ f[pa].kind = "dir") \/ (inB /\ f[pb].kind = "dir")
                    THEN CompareDir(f, Append(rel, n), NameOrder, dirDistinct, opts)
                    ELSE <<>>
       IN (IF listed THEN <<entry>> \o below ELSE <<>>)
          \o CompareDir(f, rel, Tail(names), dirDistinct, opts)

Compare(f, dirDistinct, opts) == CompareDir(f, <<>>, NameOrder, dirDistinct, opts)

\* How the comparator behaves in one call (env): how is "sound", "throws"
\* (the call fails), "no diffSet" (the result has no entry sequence),
\* "no names" or "no relativePath" (one entry of the sequence comes without
\* both names, or without its relative path); where tells which entry that
\* is, the "first" or the "last"; dirDistinct is as above.
Sound(dirDistinct) == [how |-> "sound", where |-> "first", dirDistinct |-> dirDistinct]

Corrupt(entry, how) ==
  IF how = "no names" THEN [entry EXCEPT !.name1 = "", !.name2 = ""]
  ELSE IF how = "no relativePath" THEN [entry EXCEPT !.relativePath = <<>>]
  ELSE entry

CorruptAt(ds, env) ==
  LET i == IF env.where = "first" THEN 1 ELSE Len(ds)
  IN [j \in 1..Len(ds) |-> IF j = i THEN Corrupt(ds[j], env.how) ELSE ds[j]]

\* compare(path1, path2, options) of dir-compare; options records the bag
\* the comparator was invoked with
compare(f, opts, env) ==
  [threw |-> env.how = "throws",
   hasDiffSet |-> env.how \notin {"throws", "no diffSet"},
   diffSet |-> IF env.how \in {"throws", "no diffSet"} THEN <<>>
               ELSE CorruptAt(Compare(f, env.dirDistinct, opts), env),
   options |-> opts]

\* compareDirectories(path1, path2, options): the comparator's result handed
\* through, its failure thrown again
compareDirectories(f, options, env) ==
  compare(f, DefaultTo(options, CompareOptionsDefault), env)

(* ----------------------------- createDiff ----------------------------- *)

\* isSymlink(filePath): lstat, false when lstat fails
isSymlink(f, p) == LstatKind(f, p) = "link"

\* name1 || name2
EitherName(entry) == IF entry.name1 # "" THEN entry.name1 ELSE entry.name2

\* path.join(relativePath, eitherName), kept as the string it is: "/a", "/d/a"
RelativeFilePath(entry) == Append(entry.relativePath, EitherName(entry))

\* (mutant) the manifest name of the first version of createDiff
LegacyMetadataName == "removed.json"

\* the name createDiff writes the manifest under
BuildMetadataName == MetadataName

\* (mutant) a link of B is followed and the bytes of its pointee copied
MaterializeDereferenced(f, entry) ==
  LET sourcePathB == Join(folderB, RelativeFilePath(entry))
      targetPath == Join(diffFolder, RelativeFilePath(entry))
      par == EnsureDir(f, Dirname(targetPath))
  IN IF par.err THEN par
     ELSE IF isSymlink(par.f, sourcePathB)
     THEN (IF StatKind(par.f, sourcePathB) = "file"
           THEN CopyFile(par.f, sourcePathB, targetPath) ELSE Ok(par.f))
     ELSE IF entry.type2 = "directory" THEN Copy(par.f, sourcePathB, targetPath)
     ELSE IF entry.type2 = "file" THEN Copy(par.f, sourcePathB, targetPath)
     ELSE Ok(par.f)

\* the "right" and "distinct" cases of the switch
Materialize(f, entry) ==
  LET sourcePathB == Join(folderB, RelativeFilePath(entry))
      targetPath == Join(diffFolder, RelativeFilePath(entry))
      par == EnsureDir(f, Dirname(targetPath))
  IN IF par.err THEN par
     ELSE IF isSymlink(par.f, sourcePathB)
     THEN Symlink(par.f, ReadLink(par.f, sourcePathB), targetPath)
     ELSE IF entry.type2 = "directory" THEN Copy(par.f, sourcePathB, targetPath)
     ELSE IF entry.type2 = "file" THEN Copy(par.f, sourcePathB, targetPath)
     ELSE Ok(par.f)

\* the loop's state st after an entry whose materialization ended as m: the
\* error of an fs call is thrown on, with the entry it was at
Materialized(st, entry, m) ==
  [st EXCEPT !.f = m.f, !.err = m.err,
             !.what = IF m.err THEN "fs" ELSE @,
             !.entry = IF m.err THEN <<entry>> ELSE @]

\* `throw new Error("Invalid entry in comparison result: " + entry)`
InvalidEntry(st, entry) ==
  [st EXCEPT !.err = TRUE, !.what = "Invalid entry", !.entry = <<entry>>]

\* (mutant) the "left" case falls through to the materializing cases
ProcessEntryLeftFallsThrough(st, entry) ==
  IF entry.relativePath = <<>> \/ EitherName(entry) = ""
  THEN InvalidEntry(st, entry)
  ELSE IF entry.state = "left"
  THEN st
  ELSE IF entry.state \in {"right", "distinct"}
  THEN Materialized(st, entry, Materialize(st.f, entry))
  ELSE st

\* (mutant) an entry without names or relative path is skipped
ProcessEntrySkipsInvalid(st, entry) ==
  IF entry.relativePath = <<>> \/ EitherName(entry) = ""
  THEN st
  ELSE IF entry.state = "left"
  THEN [st EXCEPT !.removedItems = Append(@, RelativeFilePath(entry))]
  ELSE IF entry.state \in {"right", "distinct"}
  THEN Materialized(st, entry, Materialize(st.f, entry))
  ELSE st

\* the body of the loop over comparisonResult.diffSet; st carries the file
\* system, removedItems, and the error thrown, if any
ProcessEntry(st, entry) ==
  IF entry.relativePath = <<>> \/ EitherName(entry) = ""
  THEN InvalidEntry(st, entry)
  ELSE IF entry.state = "left"
  THEN [st EXCEPT !.removedItems = Append(@, RelativeFilePath(entry))]
  ELSE IF entry.state \in {"right", "distinct"}
  THEN Materialized(st, entry, Materialize(st.f, entry))
  ELSE st

RECURSIVE ProcessEntries(_, _)
ProcessEntries(st, entries) ==
  IF st.err \/ entries = <<>> THEN st
  ELSE ProcessEntries(ProcessEntry(st, Head(entries)), Tail(entries))

\* how a createDiff call stands: the file system f, removedItems, whether it
\* threw, the statement that threw (what) and the entry it was at
Stands(f, what) ==
  [f |-> f, removedItems |-> <<>>, err |-> what # "none", what |-> what,
   entry |-> <<>>]

\* (mutant) the manifest is written with whatever was recorded, also when
\* the loop threw
SaveMetadataRegardless(loop) ==
  IF Len(loop.removedItems) = 0 THEN loop
  ELSE LET w == WriteJson(loop.f, Append(diffFolder, BuildMetadataName),
                          loop.removedItems)
       IN [loop EXCEPT !.f = w.f, !.err = loop.err \/ w.err,
                       !.what = IF ~loop.err /\ w.err THEN "fs" ELSE @]

\* "Save removed items metadata"
SaveMetadata(loop) ==
  IF loop.err \/ Len(loop.removedItems) = 0 THEN loop
  ELSE LET w == WriteJson(loop.f, Append(diffFolder, BuildMetadataName),
                          loop.removedItems)
       IN [loop EXCEPT !.f = w.f, !.err = w.err,
                       !.what = IF w.err THEN "fs" ELSE @]

\* (mutant) the diff folder is not cleaned first
CleanKeeps(f) == EnsureDir(f, diffFolder)

\* "Ensure the diff folder is clean"
Clean(f) == EnsureDir(Remove(f, diffFolder).f, diffFolder)

\* (mutant) the comparison runs before the diff folder is cleaned, and its
\* failure leaves the folder as it was
createDiffComparesFirst(f, comparisonResult) ==
  IF comparisonResult.threw THEN Stands(f, "compareDirectories")
  ELSE LET clean == Clean(f)
       IN IF clean.err THEN Stands(clean.f, "fs")
          ELSE IF ~comparisonResult.hasDiffSet
          THEN Stands(clean.f, "Comparison result is empty")
          ELSE SaveMetadata(ProcessEntries(Stands(clean.f, "none"),
                                           comparisonResult.diffSet))

\* createDiff(folderA, folderB, diffFolder, options), from the result
\* comparisonResult that compareDirectories gives it
createDiff(f, comparisonResult) ==
  LET clean == Clean(f)
  IN IF clean.err THEN Stands(clean.f, "fs")
     ELSE IF comparisonResult.threw THEN Stands(clean.f, "compareDirectories")
     ELSE IF ~comparisonResult.hasDiffSet
     THEN Stands(clean.f, "Comparison result is empty")
     ELSE SaveMetadata(ProcessEntries(Stands(clean.f, "none"),
                                      comparisonResult.diffSet))

\* the call of compareDirectories in createDiff: the options parameter with
\* its default, and the trees as they are once the diff folder is clean
Comparison(f, options, env) ==
  compareDirectories(Clean(f).f, Given(DefaultTo(options, DiffOptionsDefault)), env)

(* ----------------------------- restoreDiff ---------------------------- *)

\* the default of the metadataPath parameter
DefaultMetadataPath == Append(diffFolder, MetadataName)

\* the filter closure: false for the manifest at the diff root.  It is
\* declared and left unused: walk never calls it.
filter(src) == Relative(diffFolder, src) # <<MetadataName>>

\* "Handle Removals": the loop over removedItems.  path.join throws a
\* TypeError on an item that is not a string.
RECURSIVE Removals(_, _)
Removals(f, items) ==
  IF items = <<>> THEN Ok(f)
  ELSE IF Head(items) = JsonNumber THEN Err(f)
  ELSE LET targetPath == Join(folderA, Head(items))
           one == IF PathExists(f, targetPath) THEN Remove(f, targetPath) ELSE Ok(f)
       IN IF one.err THEN one ELSE Removals(one.f, Tail(items))

\* the symlink branch of walk
RestoreSymlink(f, srcPath, destPath) ==
  LET symlinkTarget == ReadLink(f, srcPath)
      par == EnsureDir(f, Dirname(destPath))
  IN IF par.err THEN par
     ELSE LET rm == IF PathExists(par.f, destPath)
                    THEN Remove(par.f, destPath) ELSE Ok(par.f)
          IN IF rm.err THEN rm ELSE Symlink(rm.f, symlinkTarget, destPath)

\* (mutant) the file is moved out of the diff folder, not copied
RestoreFileMoves(f, srcPath, destPath) ==
  LET par == EnsureDir(f, Dirname(destPath))
      cp == IF par.err THEN par ELSE CopyFile(par.f, srcPath, destPath)
  IN IF cp.err THEN cp ELSE Remove(cp.f, srcPath)

\* the file branch of walk
RestoreFile(f, srcPath, destPath) ==
  LET par == EnsureDir(f, Dirname(destPath))
  IN IF par.err THEN par ELSE CopyFile(par.f, srcPath, destPath)

\* the outcome of one step of walk, with the relative path it was at when
\* the step threw, and the items the loop has taken up so far (seen)
At(one, relativePath, seen) ==
  [f |-> one.f, err |-> one.err, at |-> IF one.err THEN relativePath ELSE <<>>,
   seen |-> seen]

\* (mutant) fs.stat in the place of fs.lstat: a link counts as its pointee
EntryKindFollowingLinks(f, srcPath) == StatKind(f, srcPath)

\* `stats = await fs.lstat(srcPath)`: the kind of the entry itself
EntryKind(f, srcPath) == LstatKind(f, srcPath)

\* walk(currentPath), as the loop over the items readdir returned
RECURSIVE WalkItems(_, _, _)
WalkItems(r, currentPath, items) ==
  IF r.err \/ items = <<>> THEN r
  ELSE LET srcPath == Append(currentPath, Head(items))
           relativePath == Relative(diffFolder, srcPath)
           destPath == folderA \o relativePath
           kind == EntryKind(r.f, srcPath)
           seen == Append(r.seen, relativePath)
           one == IF kind = "link"
                  THEN At(RestoreSymlink(r.f, srcPath, destPath), relativePath, seen)
                  ELSE IF kind = "dir"
                  THEN LET mk == At(EnsureDir(r.f, destPath), relativePath, seen)
                       IN IF mk.err THEN mk
                          ELSE WalkItems(mk, srcPath, ReadDir(mk.f, srcPath))
                  ELSE IF kind = "file"
                  THEN At(RestoreFile(r.f, srcPath, destPath), relativePath, seen)
                  ELSE [r EXCEPT !.seen = seen]
       IN WalkItems(one, currentPath, Tail(items))

walk(f, currentPath) ==
  IF StatKind(f, currentPath) # "dir" THEN At(Err(f), <<>>, <<>>)
  ELSE WalkItems(At(Ok(f), <<>>, <<>>), currentPath, ReadDir(f, currentPath))

\* how a restoreDiff call ended: the file system f it left, the file system
\* mid the removal loop left (the one it started from when that loop never
\* ran), whether it threw, the statement that threw (what) and the relative
\* path of the diff folder being replayed when it did (at), and the items of
\* the diff folder the walk took up, in the order it did (seen)
Ended(f, mid, what, at) ==
  [f |-> f, mid |-> mid, err |-> what # "none", what |-> what, at |-> at,
   seen |-> <<>>]

\* the replay phase of restoreDiff, after the removal loop left rm
Replay(rm, w) ==
  [Ended(w.f, rm.f, IF w.err THEN "walk" ELSE "none", w.at) EXCEPT !.seen = w.seen]

\* restoreDiff(folderA, diffFolder, metadataPath)
restoreDiff(f, metadataPath) ==
  LET has == PathExists(f, metadataPath)
      metadata == ReadJson(f, metadataPath)
  IN IF has /\ ~metadata.ok THEN Ended(f, f, "readJson", <<>>)
     ELSE IF has /\ ~metadata.iterable THEN Ended(f, f, "removedItems", <<>>)
     ELSE LET removedItems == IF has THEN metadata.removed ELSE <<>>
              rm == Removals(f, removedItems)
          IN IF rm.err THEN Ended(rm.f, rm.f, "path.join", <<>>)
             ELSE Replay(rm, walk(rm.f, diffFolder))

(* --------------------------- state machine ---------------------------- *)

VARIABLES
  fs,            \* the file system
  options,       \* the options argument the caller gives createDiff
  comparator,    \* how the external comparator behaves when it is called
  built,         \* outcome of createDiff: "none" (not called), "ok", "error";
                 \* "given" when the diff folder was built elsewhere
  diffSet,       \* the comparator's result of that call
  removedItems,  \* removedItems of that call when it ended
  invoked,       \* the options bag the comparator was last invoked with
  restores,      \* number of restoreDiff calls made
  restored,      \* outcome of the last restoreDiff: "none", "ok", "error"
  before,        \* the file system as the last createDiff or restoreDiff
                 \* call found it
  afterRemovals, \* the file system as the removal loop of that call left it
  thrown,        \* the error the last call threw: the statement that threw,
                 \* and the diff folder path or the entry it was at
  visited        \* the relative paths of the diff folder's items the walk of
                 \* the last restoreDiff call took up, in order

vars == <<fs, options, comparator, built, diffSet, removedItems, invoked,
          restores, restored, before, afterRemovals, thrown, visited>>

NotInvoked == [called |-> FALSE, bag |-> Bag("unset", "unset", "unset")]
Invoked(bag) == [called |-> TRUE, bag |-> bag]

Thrown(what, at, entry) == [what |-> what, at |-> at, entry |-> entry]
NoThrow == Thrown("none", <<>>, <<>>)

\* the trees the model starts from, as maps from relative paths
None == [kind |-> "none", data |-> NoData, target |-> <<>>]

Contents == {File(Raw(n)) : n \in 1..MaxData}

Pack(a, l, d, da, dl, m) ==
  LET all == (<<"a">> :> a) @@ (<<"l">> :> l) @@ (<<"d">> :> d)
             @@ (<<"d", "a">> :> (IF d = Dir THEN da ELSE None))
             @@ (<<"d", "l">> :> (IF d = Dir THEN dl ELSE None))
             @@ (<<MetadataName>> :> m)
  IN [p \in {q \in DOMAIN all : all[q] # None} |-> all[p]]

\* tree A, the baseline
TreesA ==
  {Pack(a, l, d, da, dl, m) :
     a \in Contents \cup {None},
     l \in {None, Link(<<"a">>)},
     d \in {None, Dir, File(Raw(1))},
     da \in {None, File(Raw(1))},
     dl \in {None, Link(<<"a">>)},
     m \in {None, File(Raw(1))}}

\* tree B, the new state: relative and absolute link targets, pointee
\* present or not, and a file under the reserved name
TreesB ==
  {Pack(a, l, d, da, dl, m) :
     a \in Contents \cup {None},
     l \in {None, Link(<<"a">>), Link(<<Sep, "B", "a">>), File(Raw(1))},
     d \in {None, Dir, File(Raw(1))},
     da \in Contents \cup {None},
     dl \in {None, Link(<<"a">>)},
     m \in {None, File(Raw(1)), File(JsonText(<< <<Sep, "a">> >>))}}

\* the file system holding tree ta at folderA and tree tb at folderB
Mount(ta, tb) ==
  LET paths == {folderA, folderB} \cup {folderA \o p : p \in DOMAIN ta}
               \cup {folderB \o p : p \in DOMAIN tb}
  IN [q \in paths |->
        IF Len(q) = 1 THEN Dir
        ELSE IF Head(q) = "A" THEN ta[Tail(q)] ELSE tb[Tail(q)]]

\* the tree found at root in f, as a map from relative paths
TreeAt(f, root) ==
  [p \in {Relative(root, q) : q \in {x \in DOMAIN f : IsPrefix(root, x) /\ x # root}}
     |-> f[root \o p]]

\* the tree t planted at root
Plant(root, t) ==
  [q \in {root} \cup {root \o p : p \in DOMAIN t} |->
     IF q = root THEN Dir ELSE t[Relative(root, q)]]

\* the tree with the entries of all that are not None
TreeOf(all) == [p \in {q \in DOMAIN all : all[q] # None} |-> all[p]]

\* the state before any call
Idle ==
  /\ diffSet = <<>>
  /\ removedItems = <<>>
  /\ invoked = NotInvoked
  /\ restores = 0
  /\ restored = "none"
  /\ before = <<>>
  /\ afterRemovals = <<>>
  /\ thrown = NoThrow
  /\ visited = <<>>

\* a sound comparator, the caller leaving the options out, no diff folder yet
Init ==
  /\ \E ta \in TreesA, tb \in TreesB : fs = Mount(ta, tb)
  /\ options = Omitted
  /\ comparator = [how |-> "sound", where |-> "first"]
  /\ built = "none"
  /\ Idle

\* the state a createDiff call that ended as r, on the comparison cmp, leaves
CreateDiffEnds(r, cmp) ==
  /\ fs' = r.f
  /\ before' = fs
  /\ built' = IF r.err THEN "error" ELSE "ok"
  /\ diffSet' = cmp.diffSet
  /\ removedItems' = r.removedItems
  /\ invoked' = Invoked(cmp.options)
  /\ thrown' = Thrown(r.what, <<>>, r.entry)

CreateDiffOn(cmp) == CreateDiffEnds(createDiff(fs, cmp), cmp)

\* the comparator's behaviour in one call
Env(dirDistinct) ==
  [how |-> comparator.how, where |-> comparator.where, dirDistinct |-> dirDistinct]

CreateDiff ==
  /\ built = "none"
  /\ \E dirDistinct \in BOOLEAN :
       CreateDiffOn(Comparison(fs, options, Env(dirDistinct)))
  /\ UNCHANGED <<options, comparator, restores, restored, afterRemovals, visited>>

\* the state a restoreDiff call that ended as r leaves
RestoreDiffEnds(r) ==
  /\ fs' = r.f
  /\ before' = fs
  /\ restored' = IF r.err THEN "error" ELSE "ok"
  /\ afterRemovals' = r.mid
  /\ thrown' = Thrown(r.what, r.at, <<>>)
  /\ visited' = r.seen

RestoreDiff ==
  /\ built \in {"ok", "given"}
  /\ restores < MaxRestores
  /\ RestoreDiffEnds(restoreDiff(fs, DefaultMetadataPath))
  /\ restores' = restores + 1
  /\ UNCHANGED <<options, comparator, built, diffSet, removedItems, invoked>>

Next == CreateDiff \/ RestoreDiff

Spec == Init /\ [][Next]_vars

(* ------- builds over an old diff folder, with any comparator ---------- *)

\* tree A and tree B of these builds
BuildTreesA ==
  {TreeOf((<<"a">> :> a) @@ (<<"l">> :> l) @@ (<<"d">> :> d)
          @@ (<<"d", "a">> :> (IF d = Dir THEN File(Raw(1)) ELSE None))
          @@ (<<"n">> :> n)) :
     a \in {None, File(Raw(1))},
     l \in {None, Link(<<"a">>)},
     d \in {None, Dir},
     n \in {None, File(Raw(1))}}

\* B spells as N what A spells as n: a file, or a link without pointee
BuildTreesB ==
  {TreeOf((<<"a">> :> a) @@ (<<"l">> :> l) @@ (<<"d">> :> d)
          @@ (<<"d", "a">> :> (IF d = Dir THEN File(Raw(2)) ELSE None))
          @@ (<<"N">> :> n)) :
     a \in {None} \cup Contents,
     l \in {None, Link(<<"d">>)},
     d \in {None, Dir},
     n \in {None, File(Raw(2)), Link(<<"n">>)}}

\* what is at the diff folder's path before the build: nothing, an empty
\* directory, a directory with the entries and the manifest of an older
\* build, a regular file, a link to tree A
OldDiffFolders ==
  {<<>>,
   Plant(diffFolder, <<>>),
   Plant(diffFolder, TreeOf((<<"a">> :> File(Raw(2))) @@ (<<"n">> :> File(Raw(1)))
                            @@ (<<"d">> :> Dir) @@ (<<"d", "n">> :> File(Raw(1)))
                            @@ (<<MetadataName>> :> File(JsonText(<< <<Sep, "n">> >>))))),
   diffFolder :> File(Raw(1)),
   diffFolder :> Link(<<Sep, "A">>)}

\* the options arguments a caller gives: none, {}, {compareSize: false},
\* {compareContent: true, compareSymlink: false}, all three set to true,
\* and all three with ignoreCase: true
OptionsArguments ==
  {Omitted,
   Given(Bag("unset", "unset", "unset")),
   Given(Bag("false", "unset", "unset")),
   Given(Bag("unset", "true", "false")),
   Given(Bag("true", "true", "true")),
   Given(IgnoringCase(Bag("true", "true", "true")))}

\* the behaviours of the comparator
Comparators ==
  {[how |-> "sound", where |-> "first"],
   [how |-> "throws", where |-> "first"],
   [how |-> "no diffSet", where |-> "first"]}
  \cup [how : {"no names", "no relativePath"}, where : {"first", "last"}]

InitBuild ==
  /\ \E ta \in BuildTreesA, tb \in BuildTreesB, old \in OldDiffFolders :
       fs = Mount(ta, tb) @@ old
  /\ options \in OptionsArguments
  /\ comparator \in Comparators
  /\ built = "none"
  /\ Idle

\* the state a direct call of compareDirectories that ended as cmp leaves
CompareDirectoriesEnds(cmp) ==
  /\ diffSet' = cmp.diffSet
  /\ invoked' = Invoked(cmp.options)
  /\ thrown' = Thrown(IF cmp.threw THEN "compareDirectories" ELSE "none", <<>>, <<>>)

\* a caller calls the exported compareDirectories itself, with its options
CompareDirectories ==
  /\ built = "none"
  /\ ~invoked.called
  /\ \E dirDistinct \in BOOLEAN :
       CompareDirectoriesEnds(compareDirectories(fs, options, Env(dirDistinct)))
  /\ UNCHANGED <<fs, options, comparator, built, removedItems, restores,
                 restored, before, afterRemovals, visited>>

NextBuild == CreateDiff \/ CompareDirectories

SpecBuild == InitBuild /\ [][NextBuild]_vars

(* ------------------- replay onto any target tree ---------------------- *)

\* the target trees restoreDiff is given: at a, l and d nothing, a file, a
\* directory or a link; a link points at a or at n, which is nothing, a
\* file or a directory
TargetTrees ==
  {TreeOf((<<"a">> :> a) @@ (<<"l">> :> l) @@ (<<"d">> :> d)
          @@ (<<"d", "a">> :> (IF d = Dir THEN da ELSE None))
          @@ (<<"n">> :> n)) :
     a \in {None, File(Raw(2)), Link(<<"n">>)},
     l \in {None, File(Raw(2)), Dir, Link(<<"a">>), Link(<<"n">>)},
     d \in {None, Dir, File(Raw(2)), Link(<<"n">>)},
     da \in {None, File(Raw(2))},
     n \in {None, Dir, File(Raw(1))}}

\* the bytes found at the manifest path: not JSON, {"removed": [...]} with
\* an empty list, a list of paths or a list with a number in it, {} without
\* the member, and the member as null, as a number, as the string "l"
Manifests ==
  {Raw(1), JsonText(<<>>), JsonText(<< <<Sep, "l">> >>),
   JsonText(<< <<Sep, "l">>, JsonNumber >>),
   JsonShape("missing", <<>>), JsonShape("falsy", <<>>),
   JsonShape("number", <<>>), JsonShape("string", << <<"l">> >>)}

\* the diff folders restoreDiff is given; the link at l points at a or, by
\* an absolute target, at the diff folder itself, the directory that holds it
DiffTrees ==
  {TreeOf((<<"a">> :> a) @@ (<<"l">> :> l) @@ (<<"d">> :> d)
          @@ (<<"d", "a">> :> (IF d = Dir THEN da ELSE None))
          @@ (<<MetadataName>> :> m)) :
     a \in {None, File(Raw(1))},
     l \in {None, File(Raw(1)), Link(<<"a">>), Link(<<Sep, "D">>)},
     d \in {None, Dir},
     da \in {None, File(Raw(1))},
     m \in {None} \cup {File(x) : x \in Manifests}}

InitReplay ==
  /\ \E tt \in TargetTrees, td \in DiffTrees :
       fs = Plant(folderA, tt) @@ Plant(diffFolder, td)
  /\ options = Omitted
  /\ comparator = [how |-> "sound", where |-> "first"]
  /\ built = "given"
  /\ Idle

NextReplay == RestoreDiff

SpecReplay == InitReplay /\ [][NextReplay]_vars

TypeOK ==
  /\ \A p \in DOMAIN fs : \A i \in 1..Len(p) : p[i] \in Names \cup {"A", "B", "D"}
  /\ built \in {"none", "ok", "error", "given"}
  /\ restored \in {"none", "ok", "error"}
  /\ restores \in 0..MaxRestores

(* ------------------------- claims: vocabulary ------------------------- *)

\* createDiff has returned normally and nothing ran since
Built == built = "ok" /\ restores = 0

PathB(e) == Join(folderB, RelativeFilePath(e))
PathD(e) == Join(diffFolder, RelativeFilePath(e))
PathA(e) == Join(folderA, RelativeFilePath(e))

Entries(S) == {diffSet[i] : i \in {j \in 1..Len(diffSet) : diffSet[j].state \in S}}
AddedOrModified == Entries({"right", "distinct"})
RemovedFromA == Entries({"left"})
EqualEntries == Entries({"equal"})

Range(q) == {q[i] : i \in 1..Len(q)}

\* the manifest this build wrote sits at path p
IsBuiltManifest(p) ==
  /\ p = DefaultMetadataPath
  /\ removedItems # <<>>
  /\ p \in DOMAIN fs
  /\ fs[p] = File(JsonText(removedItems))

(* --------------------------------- C1 --------------------------------- *)

\* C1: after createDiff(A,B,D) and then restoreDiff(A,D), both returning
\* normally, tree A has exactly the relative paths of tree B, each with the
\* same kind, bytes and link target.
RoundTripConverges ==
  (built = "ok" /\ restores = 1 /\ restored = "ok")
    => TreeAt(fs, folderA) = TreeAt(fs, folderB)

(* --------------------------------- C2 --------------------------------- *)

\* C2: a restoreDiff call made right after a restoreDiff call that returned
\* normally returns normally too and leaves the file system as it found it.
IdempotentReplay ==
  [][(restores >= 1 /\ restored = "ok" /\ restores' = restores + 1)
       => (restored' = "ok" /\ fs' = fs)]_vars

(* --------------------------------- C3 --------------------------------- *)

\* C3: when D holds a manifest file at its root, a restoreDiff call neither
\* creates nor overwrites an entry at target/__folder-diff-metadata.json.
ManifestNeverCopied ==
  [][(restores' = restores + 1 /\ LstatKind(fs, DefaultMetadataPath) = "file")
       => LET p == Append(folderA, MetadataName)
          IN p \in DOMAIN fs' => (p \in DOMAIN fs /\ fs'[p] = fs[p])]_vars

(* --------------------------------- C4 --------------------------------- *)

\* C4: after createDiff returned, D/__folder-diff-metadata.json is absent
\* or is the removal manifest this build wrote; bytes of B are never there.
ReservedNameNotMaterialized ==
  Built => (DefaultMetadataPath \notin DOMAIN fs
            \/ IsBuiltManifest(DefaultMetadataPath))

(* --------------------------------- C5 --------------------------------- *)

\* C5: after createDiff returned, every entry classified added or modified
\* is in D at its relative path with the kind, bytes and link target it has
\* in B.
AdditionsComplete ==
  Built => \A e \in AddedOrModified :
             /\ PathD(e) \in DOMAIN fs
             /\ fs[PathD(e)] = fs[PathB(e)]

(* --------------------------------- C6 --------------------------------- *)

EqualExcluded ==
  Built => \A e \in EqualEntries :
             /\ RelativeFilePath(e) \notin Range(removedItems)
             /\ PathD(e) \in DOMAIN fs =>
                  \/ IsBuiltManifest(PathD(e))
                  \/ /\ fs[PathB(e)].kind = "dir"
                     /\ \E e2 \in AddedOrModified :
                          e2 # e /\ IsPrefix(PathD(e), PathD(e2))

(* --------------------------------- C8 --------------------------------- *)

IsAddedLink(e) == e \in AddedOrModified /\ fs[PathB(e)].kind = "link"

ManifestIffRemovals ==
  Built => (LstatKind(fs, DefaultMetadataPath) = "file" <=> RemovedFromA # {})

(* -------------------------------- C10 --------------------------------- *)

Called == restores' = restores + 1

\* the target tree and the diff folder's tree in file system f
Target(f) == TreeAt(f, folderA)
Diff(f) == TreeAt(f, diffFolder)

\* the relative paths of the diff folder's entries, the manifest apart
DiffEntries(f) == DOMAIN Diff(f) \ {<<MetadataName>>}

\* the bytes at the manifest path, when a file is there
HasManifest(f) == StatKind(f, DefaultMetadataPath) = "file"
ManifestData(f) == f[RealPath(f, DefaultMetadataPath)].data

\* no manifest, or a manifest whose removed list is missing or empty
ZeroRemovals(f) ==
  \/ ~PathExists(f, DefaultMetadataPath)
  \/ /\ HasManifest(f)
     /\ ManifestData(f).shape \in {"missing", "list"}
     /\ ManifestData(f).removed = <<>>

(* -------------------------------- C11 --------------------------------- *)

WithoutDiffFolder(f) == Drop(f, {q \in DOMAIN f : IsPrefix(diffFolder, q)})

\* the comparison the build ran on, as recorded
ComparisonRun ==
  [threw |-> FALSE, hasDiffSet |-> TRUE, diffSet |-> diffSet, options |-> invoked.bag]

\* C12: after createDiff returned, whatever was at the diff folder's path
\* before the call, the diff folder holds only the manifest this call wrote
\* and entries that are in B at the same relative path, and it is entry for
\* entry the folder the same call builds when nothing is at that path.
PriorContentsDiscarded ==
  Built =>
    /\ \A p \in DOMAIN Diff(fs) :
         \/ IsBuiltManifest(diffFolder \o p)
         \/ /\ folderB \o p \in DOMAIN fs
            /\ fs[diffFolder \o p] = fs[folderB \o p]
    /\ Diff(fs) = Diff(createDiff(WithoutDiffFolder(before), ComparisonRun).f)

\* a build over the folder of an older build, which now holds entries and
\* a manifest of its own and nothing of the old ones
PriorContentsDiscardedWitness ==
  /\ Built
  /\ {<<"a">>, <<"n">>, <<"d", "n">>, <<MetadataName>>} \subseteq DOMAIN Diff(before)
  /\ <<"a">> \notin DOMAIN Diff(fs)
  /\ <<"d", "a">> \in DOMAIN Diff(fs)
  /\ IsBuiltManifest(DefaultMetadataPath)
  /\ removedItems # Diff(before)[<<MetadataName>>].data.removed

(* -------------------------------- C13 --------------------------------- *)

\* createDiff has been called
BuildEnded == built \in {"ok", "error"}

\* C13: when the comparator's call fails, createDiff fails with the error
\* compareDirectories throws, no entry and no manifest is in the diff
\* folder, no removal is recorded, and the diff folder is an empty directory.
ComparatorFailurePropagates ==
  (BuildEnded /\ comparator.how = "throws") =>
    /\ built = "error"
    /\ thrown.what = "compareDirectories"
    /\ LstatKind(fs, diffFolder) = "dir"
    /\ DOMAIN Diff(fs) = {}
    /\ removedItems = <<>>

\* the comparator failed in a build over the folder of an older build
ComparatorFailurePropagatesWitness ==
  /\ built = "error"
  /\ comparator.how = "throws"
  /\ invoked.called
  /\ {<<"a">>, <<MetadataName>>} \subseteq DOMAIN Diff(before)
  /\ DOMAIN TreeAt(fs, folderB) # {}

(* -------------------------------- C14 --------------------------------- *)

\* an entry without both names, or without its relative path
Invalid(entry) ==
  \/ entry.name1 = "" /\ entry.name2 = ""
  \/ entry.relativePath = <<>>

\* C14: when the comparator's result has no entry sequence, createDiff
\* fails with the error that says so; when an entry of the sequence has
\* neither name or no relative path, createDiff fails with the error that
\* carries this entry.  In neither case does the call return normally.
InvalidResultRejected ==
  BuildEnded =>
    /\ comparator.how = "no diffSet" =>
         built = "error" /\ thrown.what = "Comparison result is empty"
    /\ \A i \in 1..Len(diffSet) :
         Invalid(diffSet[i]) =>
           /\ built = "error"
           /\ thrown.what = "Invalid entry"
           /\ thrown.entry = <<diffSet[i]>>

\* the last of several entries was invalid: the call failed on it after it
\* had materialized an earlier one
InvalidResultRejectedWitness ==
  /\ built = "error"
  /\ Len(diffSet) >= 3
  /\ Invalid(diffSet[Len(diffSet)])
  /\ diffSet[Len(diffSet)].relativePath = <<>>
  /\ thrown.entry = <<diffSet[Len(diffSet)]>>
  /\ DOMAIN Diff(fs) # {}

(* -------------------------------- C15 --------------------------------- *)

\* the manifest's bytes are not JSON, or its removed member is there and is
\* not a list of path strings
Malformed(d) ==
  \/ ~d.json
  \/ d.shape \in {"falsy", "number", "string"}
  \/ d.shape = "list" /\ \E i \in 1..Len(d.removed) : d.removed[i] = JsonNumber

\* C15: a restoreDiff call that finds a malformed manifest fails, on reading
\* the manifest, and leaves the target tree as it found it.
MalformedManifestRejected ==
  (restores >= 1 /\ HasManifest(before) /\ Malformed(ManifestData(before))) =>
    /\ restored = "error"
    /\ thrown.what \in {"readJson", "removedItems", "path.join"}
    /\ Target(fs) = Target(before)

(* -------------------------------- C16 --------------------------------- *)

\* the entry of the target found at relative path p, links in the middle
\* of the path followed, the last one not (lstat)
TargetEntry(f, p) ==
  LET r == LinkPath(f, folderA \o p)
  IN IF r \in DOMAIN f THEN f[r] ELSE None

\* C16: when restoreDiff has returned normally, the target has, at the path
\* of every entry of the diff folder but the manifest, an entry of the same
\* kind: a directory, a regular file with the same bytes, a symlink with
\* the same target string.
CompletionImpliesSuccess ==
  (restores >= 1 /\ restored = "ok") =>
    \A p \in DiffEntries(before) : TargetEntry(fs, p) = Diff(before)[p]

(* -------------------------------- C17 --------------------------------- *)

OptionNames == {"compareSize", "compareContent", "compareSymlink"}

\* the caller supplies the option named o
Supplied(o) == options.given /\ options.bag[o] # "unset"

\* C17: whenever the comparator has been invoked, through createDiff or
\* through compareDirectories, each option the caller did not supply was
\* true in the bag the comparator received.
OptionDefaultsTrue ==
  invoked.called => \A o \in OptionNames : ~Supplied(o) => invoked.bag[o] = "true"

(* -------------------------------- C18 --------------------------------- *)

\* the removed list of a well-formed manifest in f, <<>> without one
Listed(f) ==
  IF HasManifest(f) /\ ~Malformed(ManifestData(f))
  THEN ReadJson(f, DefaultMetadataPath).removed ELSE <<>>

\* C18: once the removal loop of a restoreDiff call has run, no path of the
\* manifest's removed list is in the target tree, whatever kind of entry it
\* was: file, directory, symlink with or without pointee.
RemovalIsLinkAware ==
  (restores >= 1 /\ thrown.what \in {"none", "walk"}) =>
    \A i \in 1..Len(Listed(before)) :
      LstatKind(afterRemovals, Join(folderA, Listed(before)[i])) = "none"

(* -------------------------------- C19 --------------------------------- *)

\* C19: a restoreDiff call does not fail at a symlink of the diff folder,
\* whatever is at its path in the target, and when the call has returned
\* normally the target has a symlink with the same target string there.
SymlinkReplayReplaces ==
  restores >= 1 =>
    \A p \in DiffEntries(before) :
      Diff(before)[p].kind = "link" =>
        /\ ~(restored = "error" /\ thrown.what = "walk" /\ thrown.at = p)
        /\ restored = "ok" => TargetEntry(fs, p) = Diff(before)[p]

(* -------------------------------- C20 --------------------------------- *)

\* the paths of the diff folder strictly beneath p
Beneath(f, p) == {q \in DiffEntries(f) : IsPrefix(p, q) /\ q # p}

\* C20: when the replay of a restoreDiff call starts with a regular file or
\* a symlink in the target at the path of a directory of the diff folder,
\* the call fails, not later than at this directory; the entry stays as it
\* was, and nothing is written at the paths of the directory's children.
DirectoryConflictFails ==
  (restores >= 1 /\ thrown.what \in {"none", "walk"}) =>
    \A p \in DiffEntries(before) :
      (/\ Diff(before)[p].kind = "dir"
       /\ TargetEntry(afterRemovals, p).kind \in {"file", "link"}) =>
        /\ restored = "error"
        /\ ~(IsPrefix(p, thrown.at) /\ thrown.at # p)
        /\ TargetEntry(fs, p) = TargetEntry(afterRemovals, p)
        /\ \A q \in Beneath(before, p) :
             TargetEntry(fs, q) = TargetEntry(afterRemovals, q)

(* -------------------------------- C21 --------------------------------- *)

\* the entries of the comparison that carry a name and a relative path
Classified == {diffSet[i] : i \in {j \in 1..Len(diffSet) : ~Invalid(diffSet[j])}}

\* C21: for every classified entry with a B-side name, the relative path
\* createDiff reads from B and writes into D is the entry's relative path
\* joined with the B-side name; it is joined with the A-side name only when
\* the entry has no B-side name.
BSideNameAuthoritative ==
  invoked.called =>
    \A e \in Classified :
      RelativeFilePath(e)
        = Append(e.relativePath, IF e.name2 # "" THEN e.name2 ELSE e.name1)

(* -------------------------------- C22 --------------------------------- *)

\* the lstat by which createDiff inspects the B side of entry e fails
InspectionFails(f, e) == LstatKind(f, PathB(e)) = "none"

\* C22: a createDiff call in which a file system operation failed does not
\* return normally: when the call has returned normally, the inspection of
\* whether the B side is a symlink has failed for none of the entries it
\* materialized.
NoFailureSwallowed ==
  Built => \A e \in AddedOrModified \cap Classified : ~InspectionFails(before, e)

(* -------------------------------- C23 --------------------------------- *)

\* the relative paths the manifest lists that the diff folder holds too
ListedAndPresent(f) ==
  {Segments(Listed(f)[i]) : i \in 1..Len(Listed(f))} \cap DiffEntries(f)

\* C23: in a restoreDiff call the removal loop has ended before the replay
\* writes: the loop itself writes nothing, and at a relative path that the
\* manifest lists and the diff folder holds the replay does not fail, and
\* when the call has returned normally the target has there the entry of
\* the diff folder, with its kind, bytes and target string.
RemovalPrecedesReplay ==
  (restores >= 1 /\ thrown.what \in {"none", "walk"}) =>
    /\ \A p \in DOMAIN afterRemovals :
         p \in DOMAIN before /\ afterRemovals[p] = before[p]
    /\ \A p \in ListedAndPresent(before) :
         /\ ~(restored = "error" /\ thrown.at = p)
         /\ restored = "ok" => TargetEntry(fs, p) = Diff(before)[p]

(* -------------------------------- C24 --------------------------------- *)

\* the entry found at path p itself, a link there not followed
Own(f, p) == IF p \in DOMAIN f THEN f[p] ELSE None

\* C24: the parent of every entry written is a directory of the output
\* tree.  When createDiff has returned normally, the parent path of every
\* entry it materialized holds a directory in D; when restoreDiff has
\* returned normally, the parent path of every entry of the diff folder
\* holds a directory in the target tree.
ParentBeforeChild ==
  /\ Built =>
       \A e \in AddedOrModified \cap Classified :
         Own(fs, Dirname(PathD(e))).kind = "dir"
  /\ (restores >= 1 /\ restored = "ok") =>
       \A p \in DiffEntries(before) :
         Own(fs, folderA \o Dirname(p)).kind = "dir"

(* -------------------------------- C25 --------------------------------- *)

\* C25: a restoreDiff call, whether it returns or throws, leaves the diff
\* folder as it found it: the same paths, each with the same kind, bytes and
\* target string, the manifest among them.
DiffFolderUntouched ==
  restores >= 1 =>
    /\ Own(fs, diffFolder) = Own(before, diffFolder)
    /\ Diff(fs) = Diff(before)

\* a call that threw after it had removed a listed path and written into
\* the target
DiffFolderUntouchedWitness ==
  /\ restores >= 1 /\ restored = "error" /\ thrown.what = "walk"
  /\ Listed(before) # <<>>
  /\ Target(afterRemovals) # Target(before)
  /\ Target(fs) # Target(afterRemovals)
  /\ Cardinality(DiffEntries(fs)) >= 3

(* -------------------------------- C26 --------------------------------- *)

\* the root directory and the tree at root are in f as they are in g
SameTree(f, g, root) == Own(f, root) = Own(g, root) /\ TreeAt(f, root) = TreeAt(g, root)

\* C26: a createDiff call, whether it returns or throws, leaves tree A and
\* tree B as it found them: the same paths, each with the same kind, bytes
\* and target string.
SourcesUntouched ==
  (BuildEnded /\ restores = 0) =>
    SameTree(fs, before, folderA) /\ SameTree(fs, before, folderB)

\* a build that found a link to tree A at the diff folder's path, and
\* returned with entries and a manifest in the diff folder
SourcesUntouchedWitness ==
  /\ Built
  /\ Own(before, diffFolder) = Link(<<Sep, "A">>)
  /\ Own(fs, diffFolder) = Dir
  /\ Cardinality(DiffEntries(fs)) >= 2
  /\ IsBuiltManifest(DefaultMetadataPath)

(* -------------------------------- C27 --------------------------------- *)

\* C27: the walk of a restoreDiff call takes up no item twice and nothing
\* but the entries of the diff folder - no path that leads through a link
\* of the diff folder - so it ends after at most as many steps as the diff
\* folder has entries; when the call has returned normally the walk has
\* taken up every entry.
WalkVisitsOnce ==
  restores >= 1 =>
    /\ \A i, j \in 1..Len(visited) : visited[i] = visited[j] => i = j
    /\ Range(visited) \subseteq DOMAIN Diff(before)
    /\ restored = "ok" => Range(visited) = DOMAIN Diff(before)

\* a call that returned on a diff folder with a link to the diff folder
\* itself beside a file and a directory with a file in it
WalkVisitsOnceWitness ==
  /\ restores >= 1 /\ restored = "ok"
  /\ Own(before, Append(diffFolder, "l")) = Link(<<Sep, "D">>)
  /\ StatKind(before, Append(diffFolder, "l")) = "dir"
  /\ {<<"a">>, <<"d", "a">>} \subseteq DOMAIN Diff(before)
  /\ Len(visited) = 4
  /\ Own(fs, Append(folderA, "l")) = Link(<<Sep, "D">>)

(* -------------------------------- C28 --------------------------------- *)

\* the added or modified entries that lie inside the directory of entry e
NestedIn(e) == {n \in AddedOrModified : n # e /\ IsPrefix(PathB(e), PathB(n))}

\* C28: when the comparison lists an added or modified directory of B and
\* entries inside it, createDiff does not fail at any of these entries, and
\* when it has returned normally each of them is in D with the kind, bytes
\* and target string it has in B.
NoWriteCollision ==
  (BuildEnded /\ restores = 0) =>
    \A e \in AddedOrModified :
      Own(fs, PathB(e)).kind = "dir" =>
        \A n \in NestedIn(e) :
          /\ ~(built = "error" /\ thrown.entry = <<n>>)
          /\ Built => Own(fs, PathD(n)) = Own(fs, PathB(n))

(* -------------------------------- C29 --------------------------------- *)

\* createDiff threw while comparing or while processing an entry
FailedBeforeSaving ==
  /\ built = "error" /\ restores = 0
  /\ \/ thrown.what \in {"compareDirectories", "Comparison result is empty",
                         "Invalid entry"}
     \/ thrown.what = "fs" /\ thrown.entry # <<>>

\* C29: a createDiff call that threw while comparing or while processing an
\* entry has written no manifest: nothing is at the manifest's path in D,
\* whatever removals the call had recorded by then.  (A file that B holds
\* under the reserved name and that the loop materialized is an entry, not
\* the manifest.)
ManifestWrittenLast ==
  FailedBeforeSaving =>
    \/ Own(fs, DefaultMetadataPath) = None
    \/ Own(fs, DefaultMetadataPath) = Own(fs, Append(folderB, MetadataName))

\* a call that threw at an entry after it had recorded a removal and
\* materialized another entry
ManifestWrittenLastWitness ==
  /\ FailedBeforeSaving
  /\ thrown.entry # <<>>
  /\ removedItems # <<>>
  /\ DiffEntries(fs) # {}
  /\ Own(fs, DefaultMetadataPath) = None
  /\ Own(before, DefaultMetadataPath) # None

(* -------------------------------- C30 --------------------------------- *)

\* the diff folder of f names the relative path p of the target: p is
\* listed in the manifest or lies beneath a listed path, or is the path of a
\* file or a link of the diff folder, or lies beneath the path of a link
NamedByDiff(f, p) ==
  \/ \E i \in 1..Len(Listed(f)) : IsPrefix(Segments(Listed(f)[i]), p)
  \/ \E q \in DiffEntries(f) :
       \/ q = p /\ Diff(f)[q].kind \in {"file", "link"}
       \/ IsPrefix(q, p) /\ Diff(f)[q].kind = "link"

\* p was not in the target and is now a directory that mirrors one of the
\* diff folder
CreatedToMirror(p) ==
  /\ p \in DiffEntries(before) /\ Diff(before)[p].kind = "dir"
  /\ Own(before, folderA \o p) = None
  /\ Own(fs, folderA \o p) = Dir

\* C30: after a restoreDiff call every path of the target tree that the
\* diff folder does not name has the kind, bytes and target string it had,
\* and no path has appeared but a directory created to mirror one of the
\* diff folder; the target's root and everything outside the target tree
\* are as they were.
RestoreChangesOnlyNamed ==
  restores >= 1 =>
    /\ \A p \in DOMAIN Target(before) \cup DOMAIN Target(fs) :
         \/ NamedByDiff(before, p)
         \/ CreatedToMirror(p)
         \/ Own(fs, folderA \o p) = Own(before, folderA \o p)
    /\ \A q \in DOMAIN before \cup DOMAIN fs :
         ~IsPrefix(folderA, q) => Own(fs, q) = Own(before, q)
    /\ Own(fs, folderA) = Own(before, folderA)

====
